---- MODULE Spec2Model ----
(***************************************************************************)
(* Model of src/Astar.py: the EightQueensState class and the a_star_search *)
(* loop with reconstruct_path.                                             *)
(*                                                                         *)
(* Objects of EightQueensState are records [queens, depth].  The class     *)
(* defines neither __eq__ nor __hash__, so the PriorityQueue and the       *)
(* came_from dictionary hold objects by identity: both are modelled as     *)
(* bags, in which two distinct objects of equal content are two copies.    *)
(* The board size, the literal 8 of the source, is the variable N so that  *)
(* the run can be examined on smaller boards as well.                      *)
(***************************************************************************)
EXTENDS Bags, FiniteSets, Integers, Sequences, TLC

VARIABLES N, tie, pc, initial_state, open_set, came_from, total_moves, result, probe,
          popped, stdout

vars == <<N, tie, pc, initial_state, open_set, came_from, total_moves, result, probe,
          popped, stdout>>

\* The board size written as a literal in the source.
Eight == 8

\* Boards 1..MaxSmallBoard are explored with every tie-break order.
MaxSmallBoard == 5

\* Boards 1..MaxProbeBoard are used to probe the methods on arbitrary placements.
MaxProbeBoard == 4

BoardSizes == (1..MaxSmallBoard) \cup {Eight}

\* Python's None as an optional value: None is <<>>, a value x is <<x>>.
None == <<>>

Some(x) == <<x>>

abs(x) == IF x < 0 THEN -x ELSE x

----------------------------------------------------------------------------
(* class EightQueensState *)

EightQueensState(queens, depth) == [queens |-> queens, depth |-> depth]

\* The loop of is_valid_move without the test of the diagonals.
RECURSIVE is_valid_move_loop_columns_only(_, _, _, _)
is_valid_move_loop_columns_only(queens, row, col, r) ==
    IF r >= Len(queens) THEN TRUE
    ELSE IF queens[r + 1] = col THEN FALSE
    ELSE is_valid_move_loop_columns_only(queens, row, col, r + 1)

\* The for loop of is_valid_move from the queen of row r on (rows are
\* 0-based, queens[r + 1] is the column of row r); returns at the first conflict.
RECURSIVE is_valid_move_loop(_, _, _, _)
is_valid_move_loop(queens, row, col, r) ==
    IF r >= Len(queens) THEN TRUE
    ELSE IF queens[r + 1] = col \/ abs(row - r) = abs(col - queens[r + 1]) THEN FALSE
    ELSE is_valid_move_loop(queens, row, col, r + 1)

\* is_valid_move looking at the queen placed last only.
is_valid_move_last_only(self, row, col) ==
    is_valid_move_loop(self.queens, row, col,
                       IF Len(self.queens) = 0 THEN 0 ELSE Len(self.queens) - 1)

is_valid_move(self, row, col) == is_valid_move_loop(self.queens, row, col, 0)

\* The list comprehension of next_states from column col on, in ascending order.
RECURSIVE next_states_loop(_, _, _)

\* The comprehension passing the depth on without the increment.
next_states_loop_same_depth(self, n, col) ==
    IF col >= n THEN <<>>
    ELSE (IF is_valid_move(self, Len(self.queens), col)
          THEN <<EightQueensState(Append(self.queens, col), self.depth)>>
          ELSE <<>>) \o next_states_loop(self, n, col + 1)

next_states_loop(self, n, col) ==
    IF col >= n THEN <<>>
    ELSE (IF is_valid_move(self, Len(self.queens), col)
          THEN <<EightQueensState(Append(self.queens, col), self.depth + 1)>>
          ELSE <<>>) \o next_states_loop(self, n, col + 1)

\* next_states with the columns taken from range(1, 8).
next_states_from_column_one(self, n) ==
    IF Len(self.queens) = n THEN <<>> ELSE next_states_loop(self, n, 1)

next_states(self, n) ==
    IF Len(self.queens) = n THEN <<>> ELSE next_states_loop(self, n, 0)

\* is_goal_state satisfied one queen early.
is_goal_state_one_short(self, n) == Len(self.queens) >= n - 1

is_goal_state(self, n) == Len(self.queens) = n

\* The nested loops of heuristic: i over the rows, j over the rows after i.
RECURSIVE heuristic_loop(_, _, _)
heuristic_loop(queens, i, j) ==
    IF i >= Len(queens) THEN 0
    ELSE IF j >= Len(queens) THEN heuristic_loop(queens, i + 1, i + 2)
    ELSE (IF abs(i - j) = abs(queens[i + 1] - queens[j + 1]) THEN 1 ELSE 0)
         + heuristic_loop(queens, i, j + 1)

heuristic(self) == heuristic_loop(self.queens, 0, 1)

\* f_score with the depth subtracted: the deepest state scores least.
f_score_depth_subtracted(self) == heuristic(self) - self.depth

\* f_score without the depth.
f_score_heuristic_only(self) == heuristic(self)

f_score(self) == self.depth + heuristic(self)

\* __lt__
lt(self, other) == f_score(self) < f_score(other)

\* initialize_random counting the first queen as a move.
initialize_random_depth_one(col) == EightQueensState(<<col>>, 1)

initialize_random(col) == EightQueensState(<<col>>, 0)

----------------------------------------------------------------------------
(* queue.PriorityQueue and dict, holding objects *)

put(q, item) == q (+) SetToBag({item})

\* The loop written as "while True": the queue is never seen empty.
empty_never(q) == FALSE

empty(q) == BagToSet(q) = {}

\* A queue without priorities: get() may return any queued object.
Minimal_unordered(q) == BagToSet(q)

\* The objects get() may return: those no other queued object is less than.
\* lt compares f-scores; "scored" names the objects with their f-scores, each
\* computed once.
Minimal(q) ==
    UNION {{p[2] : p \in {p \in scored : \A o \in scored : ~(o[1] < p[1])}} :
           scored \in {{<<f_score(s), s>> : s \in BagToSet(q)}}}

\* The first k columns of a placement read as a number, to order the
\* placements of one length.
RECURSIVE CodeUpTo(_, _)
CodeUpTo(queens, k) ==
    IF k = 0 THEN 0 ELSE CodeUpTo(queens, k - 1) * Eight + queens[k]

Code(queens) == CodeUpTo(queens, Len(queens))

\* Which of the minimal objects get() returns is not fixed by __lt__.  Under
\* "any" it is any of them, under "first" ("last") the one whose placement
\* comes first (last) among the minimal ones.
tie_break(M, t) ==
    CASE t = "any" -> M
      [] t = "first" ->
           UNION {{p[2] : p \in {p \in coded : \A o \in coded : p[1] <= o[1]}} :
                  coded \in {{<<Code(s.queens), s>> : s \in M}}}
      [] t = "last" ->
           UNION {{p[2] : p \in {p \in coded : \A o \in coded : p[1] >= o[1]}} :
                  coded \in {{<<Code(s.queens), s>> : s \in M}}}

get_choices(q, t) == UNION {tie_break(M, t) : M \in {Minimal(q)}}

\* The tie-breaks examined on a board of size n: every order on the small
\* boards, the two extreme orders on the board of the source.
TieBreaks(n) == IF n <= MaxSmallBoard THEN {"any", "first", "last"} ELSE {"first", "last"}

\* get() as a peek: the object stays in the queue.
remove_peek(q, item) == q

remove(q, item) == q (-) SetToBag({item})

\* The assignment making a new dictionary of the one entry.
setitem_new_dict(d, key, val) == SetToBag({[key |-> key, val |-> val]})

\* The assignment recording no predecessor.
setitem_no_predecessor(d, key, val) == d (+) SetToBag({[key |-> key, val |-> None]})

\* came_from[key] = val
setitem(d, key, val) == d (+) SetToBag({[key |-> key, val |-> val]})

\* "next_state in came_from" for an object the comprehension of next_states
\* has just constructed: membership is by identity, and a new object is no key.
new_in_came_from(d, next_state) == FALSE

\* "current in came_from" for an object taken from the queue or the dictionary.
in_came_from(d, current) == \E e \in BagToSet(d) : e.key = current

getitem(d, key) == (CHOOSE e \in BagToSet(d) : e.key = key).val

----------------------------------------------------------------------------
(* reconstruct_path *)

\* The while loop of reconstruct_path; c names the predecessor of current.
RECURSIVE reconstruct_path_loop(_, _, _)

\* The loop appending the predecessor instead of inserting it at the front.
reconstruct_path_loop_append(d, current, total_path) ==
    IF in_came_from(d, current) /\ getitem(d, current) # None
    THEN CHOOSE r \in {reconstruct_path_loop(d, c, total_path \o <<c>>) :
                           c \in {getitem(d, current)[1]}} : TRUE
    ELSE total_path

reconstruct_path_loop(d, current, total_path) ==
    IF in_came_from(d, current) /\ getitem(d, current) # None
    THEN CHOOSE r \in {reconstruct_path_loop(d, c, <<c>> \o total_path) :
                           c \in {getitem(d, current)[1]}} : TRUE
    ELSE total_path

\* reconstruct_path starting from the empty list instead of [current].
reconstruct_path_without_current(d, current) == reconstruct_path_loop(d, current, <<>>)

reconstruct_path(d, current) == reconstruct_path_loop(d, current, <<current>>)

----------------------------------------------------------------------------
(* a_star_search *)

\* The for loop over current.next_states(), from the queue, the dictionary and
\* the counter it starts with to those it ends with.
RECURSIVE expand_loop(_, _, _, _, _)

\* The loop putting current back into the queue when it is done.
expand_loop_requeues_current(q, d, moves, current, succs) ==
    IF succs = <<>> THEN <<put(q, current), d, moves>>
    ELSE IF ~new_in_came_from(d, Head(succs))
         THEN expand_loop(put(q, Head(succs)), setitem(d, Head(succs), Some(current)),
                          moves + 1, current, Tail(succs))
         ELSE expand_loop(q, d, moves, current, Tail(succs))

expand_loop(q, d, moves, current, succs) ==
    IF succs = <<>> THEN <<q, d, moves>>
    ELSE IF ~new_in_came_from(d, Head(succs))
         THEN expand_loop(put(q, Head(succs)), setitem(d, Head(succs), Some(current)),
                          moves + 1, current, Tail(succs))
         ELSE expand_loop(q, d, moves, current, Tail(succs))

NoResult == [path |-> None, depth |-> -1, total_moves |-> -1]

\* A call of one method on one object: the object, the arguments, the result.
NoProbe == [op |-> "none", self |-> EightQueensState(<<>>, 0), row |-> 0, col |-> 0,
            valid |-> FALSE, succs |-> <<>>, h |-> 0]

Init ==
    /\ N \in BoardSizes
    /\ tie \in TieBreaks(N)
    /\ pc = "main"
    /\ initial_state = EightQueensState(<<>>, 0)
    /\ open_set = EmptyBag
    /\ came_from = EmptyBag
    /\ total_moves = 0
    /\ result = NoResult
    /\ probe = NoProbe
    /\ popped = EmptyBag
    /\ stdout = <<>>

\* initialize_random() and the call of a_star_search up to its loop.
Begin(col) ==
    /\ pc = "main"
    /\ initial_state' = initialize_random(col)
    /\ open_set' = put(EmptyBag, initial_state')
    /\ came_from' = setitem(EmptyBag, initial_state', None)
    /\ total_moves' = 0
    /\ pc' = "loop"
    /\ UNCHANGED <<N, tie, result, probe, popped, stdout>>

\* One iteration of the loop: get() takes current from the queue; a goal state
\* ends the run with the reconstructed path, any other state is expanded.
\* popped records the objects get() has returned so far.
Iterate ==
    /\ pc = "loop"
    /\ ~empty(open_set)
    /\ \E current \in get_choices(open_set, tie) :
         /\ popped' = popped (+) SetToBag({current})
         /\ IF is_goal_state(current, N)
            THEN /\ open_set' = remove(open_set, current)
                 /\ result' = [path |-> Some(reconstruct_path(came_from, current)),
                               depth |-> current.depth, total_moves |-> total_moves]
                 /\ pc' = "Success"
                 /\ UNCHANGED <<came_from, total_moves>>
            ELSE /\ \E st \in {expand_loop(remove(open_set, current), came_from,
                                           total_moves, current, next_states(current, N))} :
                        /\ open_set' = st[1]
                        /\ came_from' = st[2]
                        /\ total_moves' = st[3]
                 /\ UNCHANGED <<pc, result>>
    /\ UNCHANGED <<N, tie, initial_state, probe, stdout>>

\* The return after the loop handing out the counter.
Exhausted_returns_counter ==
    /\ pc = "loop"
    /\ empty(open_set)
    /\ result' = [path |-> None, depth |-> 0, total_moves |-> total_moves]
    /\ pc' = "Exhausted"
    /\ UNCHANGED <<N, tie, initial_state, open_set, came_from, total_moves, probe,
                   popped, stdout>>

\* The loop ends with the queue empty.
Exhausted ==
    /\ pc = "loop"
    /\ empty(open_set)
    /\ result' = [path |-> None, depth |-> 0, total_moves |-> 0]
    /\ pc' = "Exhausted"
    /\ UNCHANGED <<N, tie, initial_state, open_set, came_from, total_moves, probe,
                   popped, stdout>>

\* "if path": None and the empty list are false.
truthy(path) == path # None /\ path[1] # <<>>

\* The lines the module prints for a path that is true.
RECURSIVE depth_lines(_)
depth_lines(path) ==
    IF path = <<>> THEN <<>>
    ELSE <<[text |-> "Depth {depth}: {queens} (Heuristic: {heuristic})",
            args |-> <<Head(path).depth, Head(path).queens, heuristic(Head(path))>>]>>
         \o depth_lines(Tail(path))

no_solution_line == [text |-> "No solution found.", args |-> <<>>]

\* The module after the call of a_star_search: the result is printed.
PrintResult ==
    /\ pc \in {"Success", "Exhausted"}
    /\ stdout = <<>>
    /\ stdout' =
           IF truthy(result.path)
           THEN depth_lines(result.path[1])
                \o <<[text |-> "Total path length: {len(path)}, reaching depth: {depth}",
                      args |-> <<Len(result.path[1]), result.depth>>],
                     [text |-> "Total moves: {total_moves}",
                      args |-> <<result.total_moves>>]>>
           ELSE <<no_solution_line>>
    /\ UNCHANGED <<N, tie, pc, initial_state, open_set, came_from, total_moves, result,
                   probe, popped>>

Next ==
    \/ \E col \in 0..(N - 1) : Begin(col)
    \/ Iterate
    \/ Exhausted
    \/ PrintResult

Spec == Init /\ [][Next]_vars

\* The loop runs without suspension: an iteration that can be taken is taken.
FairSpec == Spec /\ WF_vars(Next)

----------------------------------------------------------------------------
(* The methods of EightQueensState called on arbitrary objects *)

\* Every sequence of at most n columns of a board of size n.
Placements(n) == UNION {[1..k -> 0..(n - 1)] : k \in 0..n}

UnitInit ==
    /\ N \in 1..MaxProbeBoard
    /\ tie = "any"
    /\ pc = "main"
    /\ initial_state = EightQueensState(<<>>, 0)
    /\ open_set = EmptyBag
    /\ came_from = EmptyBag
    /\ total_moves = 0
    /\ result = NoResult
    /\ popped = EmptyBag
    /\ stdout = <<>>
    /\ \E queens \in Placements(N) : \E depth \in {0, Len(queens)} :
           probe = [NoProbe EXCEPT !.self = EightQueensState(queens, depth)]

CallIsValidMove(row, col) ==
    /\ probe' = [NoProbe EXCEPT !.op = "is_valid_move", !.self = probe.self,
                                !.row = row, !.col = col,
                                !.valid = is_valid_move(probe.self, row, col)]
    /\ UNCHANGED <<N, tie, pc, initial_state, open_set, came_from, total_moves, result,
                   popped, stdout>>

CallNextStates ==
    /\ probe' = [NoProbe EXCEPT !.op = "next_states", !.self = probe.self,
                                !.succs = next_states(probe.self, N)]
    /\ UNCHANGED <<N, tie, pc, initial_state, open_set, came_from, total_moves, result,
                   popped, stdout>>

CallHeuristic ==
    /\ probe' = [NoProbe EXCEPT !.op = "heuristic", !.self = probe.self,
                                !.h = heuristic(probe.self)]
    /\ UNCHANGED <<N, tie, pc, initial_state, open_set, came_from, total_moves, result,
                   popped, stdout>>

UnitNext ==
    \/ \E row \in 0..N : \E col \in 0..(N - 1) : CallIsValidMove(row, col)
    \/ CallNextStates
    \/ CallHeuristic

UnitSpec == UnitInit /\ [][UnitNext]_vars

----------------------------------------------------------------------------
(* Properties *)

Returned == pc \in {"Success", "Exhausted"}

\* The list a successful run returns.
ReturnedPath == result.path[1]

Last(seq) == seq[Len(seq)]

\* No two queens of the placement on a common column or diagonal.
NonAttacking(queens) ==
    \A i \in 1..Len(queens) : \A j \in (i + 1)..Len(queens) :
        queens[i] # queens[j] /\ abs(i - j) # abs(queens[i] - queens[j])

\* C1: on the board of 8, from every root column and under every tie-break, the
\* run never ends Exhausted; it returns a path that starts with the root (one
\* queen, depth 0) and ends with 8 queens that are a permutation of 0..7 with
\* no two on a common column or diagonal, and a positive count of discoveries.
C1_EightBoardSolved ==
    (N = Eight /\ Returned) =>
        /\ pc = "Success"
        /\ result.path # None
        /\ ReturnedPath[1] = initial_state
        /\ Len(ReturnedPath[1].queens) = 1
        /\ ReturnedPath[1].depth = 0
        /\ Len(Last(ReturnedPath).queens) = 8
        /\ {Last(ReturnedPath).queens[i] : i \in 1..8} = 0..7
        /\ NonAttacking(Last(ReturnedPath).queens)
        /\ result.total_moves > 0

C1_Witness ==
    /\ N = Eight
    /\ pc = "Success"
    /\ initial_state.queens = <<0>>
    /\ tie = "last"

\* C2 as stated: the depth a successful run on the board of 8 returns is 8.
C2_Original == (N = Eight /\ pc = "Success") => result.depth = 8

\* C2, amended: the depth a successful run returns is the number of queens of
\* the goal state less one, the board size less one: 7 on the board of 8.
C2_ReturnedDepth ==
    pc = "Success" =>
        /\ result.depth = N - 1
        /\ result.depth = Len(Last(ReturnedPath).queens) - 1
        /\ N = Eight => result.depth = 7

C2_Witness == N = Eight /\ pc = "Success" /\ result.depth = 7

\* Every object of a run: the keys of came_from (the root and every successor
\* ever made) and the objects in the queue.
RunStates == {e.key : e \in BagToSet(came_from)} \cup BagToSet(open_set)

\* C3 as stated: every state of a run has depth = len(queens).
C3_Original == \A s \in RunStates : s.depth = Len(s.queens)

\* C3, amended: every state of a run has depth = len(queens) - 1.
C3_DepthIsQueensLessOne == \A s \in RunStates : s.depth = Len(s.queens) - 1

C3_Witness == \E s \in RunStates : Len(s.queens) >= 3 /\ s.depth = 2

\* C4: a run that ends with the queue empty returns exactly (None, 0, 0),
\* whatever the counter of discoveries has reached; on the boards of size 2
\* and 3 every run ends this way.
C4_ExhaustedReturnsNoneZeroZero ==
    /\ pc = "Exhausted" =>
           /\ empty(open_set)
           /\ result = [path |-> None, depth |-> 0, total_moves |-> 0]
    /\ (N \in {2, 3} /\ Returned) => pc = "Exhausted"

C4_Witness == pc = "Exhausted" /\ N = 3 /\ total_moves > 0 /\ result.total_moves = 0

\* C5: the path of a successful run is in root-first order: it starts with
\* the initial state and ends with a goal state that has left the queue, each
\* state's placement is its predecessor's plus one column, the depths are
\* 0, 1, 2, ... and the length of the path is the returned depth plus one.
C5_PathRootFirst ==
    pc = "Success" =>
        /\ ReturnedPath[1] = initial_state
        /\ is_goal_state(Last(ReturnedPath), N)
        /\ Last(ReturnedPath).depth = result.depth
        /\ \A i \in 1..(Len(ReturnedPath) - 1) :
               /\ Len(ReturnedPath[i + 1].queens) = Len(ReturnedPath[i].queens) + 1
               /\ SubSeq(ReturnedPath[i + 1].queens, 1, Len(ReturnedPath[i].queens))
                      = ReturnedPath[i].queens
        /\ \A i \in 1..Len(ReturnedPath) : ReturnedPath[i].depth = i - 1
        /\ Len(ReturnedPath) = result.depth + 1

C5_Witness == pc = "Success" /\ Len(ReturnedPath) >= 4 /\ tie = "any"

\* C6: under fair scheduling of the loop's iterations every run, on every
\* board and from every root, eventually returns (Success or Exhausted).
C6_Terminates == <>Returned

C6_Witness == Returned /\ N = MaxSmallBoard /\ total_moves >= 3

\* C7: every state in the queue (so every state ever queued or taken from it)
\* has heuristic 0, and its f-score is its depth.
C7_HeuristicZero ==
    \A s \in BagToSet(open_set) : heuristic(s) = 0 /\ f_score(s) = s.depth

C7_Witness == \E s \in BagToSet(open_set) : Len(s.queens) >= 4 /\ f_score(s) = 3

\* C8: is_valid_move(row, col) is true exactly when every placed queen (r, c)
\* has c # col and |row - r| # |col - c|; so the successors of a placement
\* without attacking queens are without attacking queens.
C8_ValidMoveChecksAllQueens ==
    /\ probe.op = "is_valid_move" =>
           probe.valid = (\A r \in 0..(Len(probe.self.queens) - 1) :
                              /\ probe.self.queens[r + 1] # probe.col
                              /\ abs(probe.row - r) # abs(probe.col - probe.self.queens[r + 1]))
    /\ (probe.op = "next_states" /\ NonAttacking(probe.self.queens)) =>
           \A i \in 1..Len(probe.succs) : NonAttacking(probe.succs[i].queens)

\* A move the last queen allows and an earlier queen forbids.
C8_Witness ==
    /\ probe.op = "is_valid_move"
    /\ Len(probe.self.queens) >= 2
    /\ ~probe.valid
    /\ is_valid_move_loop(probe.self.queens, probe.row, probe.col,
                          Len(probe.self.queens) - 1)

\* C9: next_states of a full board is empty; otherwise it holds, in ascending
\* order of the column, exactly one state for each column c of the board
\* with is_valid_move(len(queens), c), with the parent's queens plus c and
\* the parent's depth plus one.
C9_NextStates ==
    probe.op = "next_states" =>
        IF Len(probe.self.queens) = N THEN probe.succs = <<>>
        ELSE /\ \A i \in 1..Len(probe.succs) :
                    /\ Len(probe.succs[i].queens) = Len(probe.self.queens) + 1
                    /\ SubSeq(probe.succs[i].queens, 1, Len(probe.self.queens))
                           = probe.self.queens
                    /\ Last(probe.succs[i].queens) \in 0..(N - 1)
                    /\ is_valid_move(probe.self, Len(probe.self.queens),
                                     Last(probe.succs[i].queens))
                    /\ probe.succs[i].depth = probe.self.depth + 1
             /\ \A i \in 1..(Len(probe.succs) - 1) :
                    Last(probe.succs[i].queens) < Last(probe.succs[i + 1].queens)
             /\ \A c \in 0..(N - 1) :
                    is_valid_move(probe.self, Len(probe.self.queens), c) =>
                        \E i \in 1..Len(probe.succs) : Last(probe.succs[i].queens) = c

C9_Witness ==
    /\ probe.op = "next_states"
    /\ Len(probe.self.queens) = 1
    /\ Len(probe.succs) >= 2
    /\ Last(probe.succs[1].queens) = 0

\* C10: no two keys of came_from and no two objects in the queue have the
\* same queens sequence, and no more discoveries are counted than there are
\* queens sequences among the keys.
C10_PlacementsUnique ==
    /\ Cardinality({e.key.queens : e \in BagToSet(came_from)}) = BagCardinality(came_from)
    /\ Cardinality({s.queens : s \in BagToSet(open_set)}) = BagCardinality(open_set)
    /\ total_moves < Cardinality({e.key.queens : e \in BagToSet(came_from)})
           \/ came_from = EmptyBag

C10_Witness ==
    /\ pc = "loop"
    /\ BagCardinality(open_set) >= 3
    /\ BagCardinality(came_from) > BagCardinality(open_set) + 2

\* What a run returns, worked out level by level without a queue: level is
\* the set of all states of one depth below the root, moves the number of
\* states of the levels so far below the root.  No states: the run is
\* exhausted.  Goal states: one of them is returned.  Otherwise the next level
\* is made of the successors of all states of this one.
RECURSIVE ByLevels(_, _, _)
ByLevels(level, moves, n) ==
    IF level = {}
    THEN [outcome |-> "Exhausted", depth |-> 0, total_moves |-> 0, goals |-> {}]
    ELSE IF \E s \in level : is_goal_state(s, n)
    THEN [outcome |-> "Success", depth |-> (CHOOSE s \in level : is_goal_state(s, n)).depth,
          total_moves |-> moves, goals |-> {s \in level : is_goal_state(s, n)}]
    ELSE CHOOSE r \in {ByLevels(next, moves + Cardinality(next), n) :
                          next \in {UNION {{next_states(s, n)[i] :
                                               i \in 1..Len(next_states(s, n))} :
                                           s \in level}}} : TRUE

\* C11: for a fixed root the outcome (Success or Exhausted), the returned depth
\* and the returned count are determined by the root and the board alone, so
\* they are the same in whatever order states of equal f-score are taken.
C11_ResultIndependentOfTieBreak ==
    Returned =>
        \E r \in {ByLevels({initial_state}, 0, N)} :
            /\ pc = r.outcome
            /\ result.depth = r.depth
            /\ result.total_moves = r.total_moves

\* A run that has returned a goal which is not the first of the goals.
C11_Witness ==
    /\ pc = "Success"
    /\ N = Eight
    /\ tie = "last"
    /\ \E g \in ByLevels({initial_state}, 0, N).goals :
           Code(g.queens) < Code(Last(ReturnedPath).queens)

\* C12: the run returns None exactly when it ends with the queue exhausted;
\* the path of a successful run is not empty and ends with the goal taken,
\* also when the initial state is itself the goal; so the module prints
\* "No solution found." exactly when no goal was reached.
C12_NoSolutionDistinguishable ==
    /\ Returned => (result.path = None <=> pc = "Exhausted")
    /\ pc = "Success" =>
           /\ Len(ReturnedPath) >= 1
           /\ is_goal_state(Last(ReturnedPath), N)
           /\ BagIn(Last(ReturnedPath), popped)
    /\ stdout # <<>> => (stdout = <<no_solution_line>> <=> pc = "Exhausted")

\* The initial state is the goal: the path is the initial state alone, and it is printed.
C12_Witness ==
    /\ pc = "Success"
    /\ is_goal_state(initial_state, N)
    /\ ReturnedPath = <<initial_state>>
    /\ stdout # <<>>
    /\ stdout # <<no_solution_line>>

\* The pairs of placed queens that share a column or a diagonal.
AttackingPairs(queens) ==
    {p \in (1..Len(queens)) \X (1..Len(queens)) :
        /\ p[1] < p[2]
        /\ \/ queens[p[1]] = queens[p[2]]
           \/ abs(p[1] - p[2]) = abs(queens[p[1]] - queens[p[2]])}

\* C13: for every queens sequence heuristic() is the number of attacking
\* pairs, the pairs of placed queens sharing a column or a diagonal.
C13_HeuristicCountsAttackingPairs ==
    probe.op = "heuristic" => probe.h = Cardinality(AttackingPairs(probe.self.queens))

\* C14: the state a get() takes has an f-score no queued state is less than;
\* no queued state is of smaller depth; and no state queued after the step,
\* left over or new, is less than it, so the f-scores of the states taken one
\* after the other never decrease.
C14_PopsMinimalFScore ==
    [][popped' # popped =>
          \E s \in BagToSet(open_set) :
              /\ CopiesIn(s, popped') = CopiesIn(s, popped) + 1
              /\ \A t \in BagToSet(open_set) : ~lt(t, s) /\ t.depth >= s.depth
              /\ \A t \in BagToSet(open_set') : ~lt(t, s)]_vars

\* A tie: states of one depth of which some are taken and some still queued.
C14_Witness ==
    /\ pc = "loop"
    /\ tie = "any"
    /\ \E s \in BagToSet(popped) : \E t \in BagToSet(open_set) :
           s.depth = t.depth /\ f_score(s) = f_score(t) /\ s.depth >= 2

Keys == {e.key : e \in BagToSet(came_from)}

\* C16: in the loop the queue holds exactly the discovered states not yet
\* taken: every queued state is a key of came_from, every key is queued or
\* has been taken, no state taken is queued again, and none is taken twice.
C16_FrontierIsDiscoveredNotPopped ==
    pc # "main" =>
        /\ BagToSet(open_set) \subseteq Keys
        /\ \A k \in Keys : BagIn(k, open_set) \/ BagIn(k, popped)
        /\ BagToSet(open_set) \cap BagToSet(popped) = {}
        /\ \A s \in BagToSet(popped) : CopiesIn(s, popped) = 1
        /\ BagCardinality(open_set) + BagCardinality(popped) = BagCardinality(came_from)

C16_Witness ==
    /\ pc = "loop"
    /\ BagCardinality(popped) >= 4
    /\ BagCardinality(open_set) >= 2
    /\ BagCardinality(came_from) >= 7

\* C17: in the loop came_from is a tree rooted at the initial state: the
\* initial state is the one key mapped to None; every other key is mapped to
\* a key that has been taken from the queue, with the key's queens less the
\* last column and a depth one less; and total_moves is the number of keys
\* less one.
C17_CameFromIsTree ==
    pc # "main" =>
        \E K \in {Keys} :
            /\ {e \in BagToSet(came_from) : e.val = None}
                   = {[key |-> initial_state, val |-> None]}
            /\ \A e \in BagToSet(came_from) :
                   e.val # None =>
                       /\ e.val[1] \in K
                       /\ BagIn(e.val[1], popped)
                       /\ e.key.queens = e.val[1].queens \o <<Last(e.key.queens)>>
                       /\ e.val[1].depth = e.key.depth - 1
            /\ total_moves = BagCardinality(came_from) - 1

C17_Witness ==
    /\ pc = "loop"
    /\ total_moves >= 5
    /\ \E e \in BagToSet(came_from) : e.val # None /\ e.val[1].depth >= 2

\* The placements of k + 1 to n rows that extend the placements of k rows in
\* level and have no two queens on a common column or diagonal.
RECURSIVE ConflictFreeBelow(_, _)
ConflictFreeBelow(level, n) ==
    IF level = {} THEN {}
    ELSE CHOOSE r \in
             {next \cup ConflictFreeBelow(next, n) :
                 next \in {{q \in {Append(p, c) : p \in level, c \in 0..(n - 1)} :
                               Len(q) <= n /\ NonAttacking(q)}}} : TRUE

\* C18: when the run returns Success, every state of fewer than N queens that
\* was discovered has been taken from the queue, the queue holds complete
\* placements only, and the count returned is the number of all conflict-free
\* placements of 2 to N rows that extend the root's queen.
C18_SuccessAfterWholeTree ==
    pc = "Success" =>
        /\ \A k \in Keys : Len(k.queens) < N => BagIn(k, popped)
        /\ \A s \in BagToSet(open_set) : Len(s.queens) = N
        /\ result.total_moves = Cardinality(ConflictFreeBelow({initial_state.queens}, N))

C18_Witness ==
    /\ pc = "Success"
    /\ N = Eight
    /\ BagCardinality(open_set) >= 2
    /\ result.total_moves > 100
    /\ stdout # <<>>

====
